---- MODULE Spec2Model ----
(***************************************************************************)
(* Model of Github.execute (packages/nodes-base/nodes/Github/              *)
(* Github.node.ts): the per-item loop that routes (resource, operation)    *)
(* to a GitHub request, awaits the answer, reshapes it and handles         *)
(* errors.  Every await of the handler is a point where the model stops:   *)
(* one action issues a request, another receives its answer.               *)
(***************************************************************************)
EXTENDS Integers, Sequences, FiniteSets, TLC

VARIABLES
    resource,        \* getNodeParameter('resource', 0)
    operation,       \* getNodeParameter('operation', 0)
    continueOnFail,  \* this.continueOnFail()
    returnAllParam,  \* getNodeParameter('returnAll', 0)
    params,          \* getNodeParameter(name, i): one record per item
    items,           \* this.getInputData(): the array, slot by slot
    input,           \* the item objects the caller passed in, as they are now
    i,               \* loop index (1-based here, 0-based in the source)
    pc,              \* position of the handler
    returnAll,       \* let returnAll
    requestMethod,   \* let requestMethod
    endpoint,        \* let endpoint
    body,            \* let body
    qs,              \* let qs
    page,            \* page cursor of githubApiRequestAllItems
    pageData,        \* accumulator of githubApiRequestAllItems
    returnData,      \* const returnData
    requests,        \* every request issued so far, in order of issue
    replies,         \* the answer to each request, Pending while in flight
    hist,            \* per item: what happened to it (history)
    result           \* what execute gave back to its caller

vars == <<resource, operation, continueOnFail, returnAllParam, params, items,
          input, i, pc, returnAll, requestMethod, endpoint, body, qs, page, pageData,
          returnData, requests, replies, hist, result>>

----------------------------------------------------------------------------
(* Bounds of the model *)

MaxItems == 2
MaxResp == 2
MaxPages == 3

----------------------------------------------------------------------------
(* Values *)

Undefined == "undefined"
Pending == <<"pending">>
Failure == <<"failure">>
Empty == <<>>

ObjectResp(k, pg) == <<"object", <<k, pg>>>>
ElemOf(k, pg, j) == <<"elem", k, pg, j>>
ArrayResp(k, pg, n) == <<"array", [j \in 1..n |-> ElemOf(k, pg, j)]>>
IsArray(r) == r[1] = "array"
ErrorEntry(msg) == <<"error", msg>>
SuccessEntry == <<"success", TRUE>>
InputJson(k) == <<"input", k>>

ErrUnknownResource == "The resource is not known!"
ErrNoBinary == "No binary data exists on item!"
ErrNoBinaryProperty == "No binary data property does not exists on item!"
ErrFolder == "File Path is a folder, not a file."
ErrRequest == "GitHub request failed"
ErrSha == "Could not get the SHA of the file."

----------------------------------------------------------------------------
(* The two allow-lists of execute *)

overwriteDataOperations ==
    {"file:create", "file:delete", "file:edit", "file:get",
     "issue:create", "issue:createComment", "issue:edit", "issue:get",
     "release:create", "release:delete", "release:get", "release:update",
     "repository:get", "repository:getLicense", "repository:getProfile",
     "review:create", "review:get", "review:update", "user:invite"}

(* A key listed in both allow-lists *)
overwriteDataOperationsArrayOverlap ==
    {"file:list", "file:get", "repository:getIssues",
     "repository:listPopularPaths", "repository:listReferrers",
     "user:getRepositories", "release:getAll", "review:getAll"}

overwriteDataOperationsArray ==
    {"file:list", "repository:getIssues", "repository:listPopularPaths",
     "repository:listReferrers", "user:getRepositories", "release:getAll",
     "review:getAll"}

fullOperation == resource \o ":" \o operation

(* The operations the node's selectors offer, per resource *)
OfferedOperations(res) ==
    CASE res = "issue" -> {"create", "createComment", "edit", "get", "lock"}
      [] res = "file" -> {"create", "delete", "edit", "get", "list"}
      [] res = "repository" -> {"get", "getLicense", "getIssues", "getProfile",
                                "listPopularPaths", "listReferrers"}
      [] res = "user" -> {"getRepositories", "invite"}
      [] res = "release" -> {"create", "get", "getAll", "delete", "update"}
      [] res = "review" -> {"create", "get", "getAll", "update"}
      [] OTHER -> {}

Resources == {"file", "issue", "repository", "release", "review", "user"}

(* A resource and an operation outside the enumerations, to exercise the
   branches of the ladder that match nothing *)
UnknownResource == "gist"
UnknownOperation == "archive"

RunKeys ==
    {<<r, o>> : r \in Resources, o \in {UnknownOperation}}
    \cup UNION {{<<r, o>> : o \in OfferedOperations(r)} : r \in Resources}
    \cup {<<UnknownResource, "get">>}

----------------------------------------------------------------------------
(* Conversions *)

RECURSIVE Join(_)
Join(pieces) == IF pieces = <<>> THEN "" ELSE Head(pieces) \o Join(Tail(pieces))

(* encodeURI: percent-encodes every character except letters, digits and
   ; , / ? : @ & = + $ - _ . ! ~ * ' ( ) #                                  *)
encodeURIChar(c) ==
    CASE c = " " -> "%20"
      [] c = "%" -> "%25"
      [] c = "<" -> "%3C"
      [] c = ">" -> "%3E"
      [] OTHER -> c

encodeURI(chars) == Join([k \in 1..Len(chars) |-> encodeURIChar(chars[k])])

(* Buffer.from(text).toString('base64') on the file contents of the model *)
Base64(text) ==
    CASE text = "hi" -> "aGk="
      [] text = "" -> ""

(* The values of the event selector, and the characters of each *)
Events == {"approve", "requestChanges", "comment", "pending"}

Characters(event) ==
    CASE event = "approve" -> <<"a", "p", "p", "r", "o", "v", "e">>
      [] event = "requestChanges" ->
            <<"r", "e", "q", "u", "e", "s", "t",
              "C", "h", "a", "n", "g", "e", "s">>
      [] event = "comment" -> <<"c", "o", "m", "m", "e", "n", "t">>
      [] event = "pending" -> <<"p", "e", "n", "d", "i", "n", "g">>

(* String.prototype.toUpperCase, character by character *)
toUpperCaseChar(c) ==
    CASE c = "a" -> "A"
      [] c = "c" -> "C"
      [] c = "d" -> "D"
      [] c = "e" -> "E"
      [] c = "g" -> "G"
      [] c = "h" -> "H"
      [] c = "i" -> "I"
      [] c = "m" -> "M"
      [] c = "n" -> "N"
      [] c = "o" -> "O"
      [] c = "p" -> "P"
      [] c = "q" -> "Q"
      [] c = "r" -> "R"
      [] c = "s" -> "S"
      [] c = "t" -> "T"
      [] c = "u" -> "U"
      [] c = "v" -> "V"
      [] OTHER -> c

toUpperCase(chars) == [k \in 1..Len(chars) |-> toUpperCaseChar(chars[k])]

(* snakeCase: a capital inside a word starts a new word; the words are
   lower-cased and joined with an underscore *)
IsCapital(c) == c \in {"C"}
toLowerCaseChar(c) == IF c = "C" THEN "c" ELSE c
RECURSIVE snakeCaseFrom(_, _)
snakeCaseFrom(chars, k) ==
    IF k > Len(chars) THEN <<>>
    ELSE (IF IsCapital(chars[k]) /\ k > 1
          THEN <<"_", toLowerCaseChar(chars[k])>>
          ELSE <<toLowerCaseChar(chars[k])>>)
         \o snakeCaseFrom(chars, k + 1)

snakeCase(chars) == snakeCaseFrom(chars, 1)

(* The event goes out in upper case only, its words not separated *)
UpperOnly(event) == Join(toUpperCase(Characters(event)))

(* snakeCase(event).toUpperCase() *)
UpperSnake(event) == Join(toUpperCase(snakeCase(Characters(event))))

----------------------------------------------------------------------------
(* Node parameters of one item.  A parameter the selected operation never
   reads keeps one value; the others range over small sets.               *)

(* The identifiers of an item come as one of three sets, the last with
   characters that are reserved in a path *)
Identifiers ==
    {[owner |-> "octo", repository |-> "hello", issueNumber |-> "7",
      release_id |-> "9", pullRequestNumber |-> "3", reviewId |-> "5",
      organization |-> "org"],
     [owner |-> "acme", repository |-> "world", issueNumber |-> "8",
      release_id |-> "10", pullRequestNumber |-> "4", reviewId |-> "6",
      organization |-> "lab"],
     [owner |-> "oc/to", repository |-> "he llo", issueNumber |-> "7?x",
      release_id |-> "9#a", pullRequestNumber |-> "3/4", reviewId |-> "5?",
      organization |-> "o rg"]}
IdentifierNames ==
    {"owner", "repository", "issueNumber", "release_id", "pullRequestNumber",
     "reviewId", "organization"}
Owners == {id.owner : id \in Identifiers}
Repositories == {id.repository : id \in Identifiers}
FilePaths == {<<"f">>, <<"d", "/", "a", " ", "b">>}
Branches == {Undefined, "dev"}
BinaryPropertyName == "data"
Shas == {"sha1", "sha2"}

VariesFilePath(res, op) == res = "file" /\ op \in {"edit", "delete"}
ReadsBinaryData(res, op) == res = "file" /\ op \in {"create", "edit"}
ReadsAsBinary(res, op) == res = "file" /\ op = "get"

(* The operations that read returnAll and limit *)
IsPaginated(res, op) ==
    \/ res = "release" /\ op = "getAll"
    \/ res = "repository" /\ op = "getIssues"
    \/ res = "review" /\ op = "getAll"
    \/ res = "user" /\ op = "getRepositories"

Limits == {50, 20}

(* The label and assignee lists of issue:create, and the field collections
   of issue:edit: either list may be left out there *)
LabelLists == {<<[label |-> "bug"], [label |-> "ui"]>>, <<>>}
AssigneeLists == {<<[assignee |-> "ann"]>>,
                  <<[assignee |-> "ann"], [assignee |-> "bob"]>>}
EditFieldSets ==
    {("labels" :> <<[label |-> "bug"]>>) @@ ("title" :> "t2"),
     ("title" :> "t2"),
     ("assignees" :> <<[assignee |-> "bob"], [assignee |-> "ann"]>>),
     ("labels" :> <<[label |-> "ui"], [label |-> "bug"]>>)
        @@ ("assignees" :> <<>>)}

ParamSpace(res, op) ==
    [owner : Owners,
     repository : Repositories,
     filePath : IF VariesFilePath(res, op) THEN FilePaths ELSE {<<"f">>},
     branch : IF res = "file" /\ op = "delete" THEN Branches ELSE {Undefined},
     author : {Undefined},
     committer : {"carol"},
     commitMessage : {"msg"},
     binaryData : IF ReadsBinaryData(res, op) THEN BOOLEAN ELSE {FALSE},
     binaryPropertyName : {BinaryPropertyName},
     fileContent : {"hi"},
     asBinaryProperty : IF ReadsAsBinary(res, op) THEN BOOLEAN ELSE {FALSE},
     title : {"t"},
     bodyText : {"text"},
     labels : IF res = "issue" /\ op = "create" THEN LabelLists
              ELSE {<<[label |-> "bug"], [label |-> "ui"]>>},
     assignees : IF res = "issue" /\ op = "create" THEN AssigneeLists
                 ELSE {<<[assignee |-> "ann"]>>},
     issueNumber : {id.issueNumber : id \in Identifiers},
     editFields : IF res = "issue" /\ op = "edit" THEN EditFieldSets
                  ELSE {("labels" :> <<[label |-> "bug"]>>)
                        @@ ("title" :> "t2")},
     lockReason : {"spam"},
     releaseTag : {"v1"},
     release_id : {id.release_id : id \in Identifiers},
     additionalFields : {("name" :> "n")},
     getRepositoryIssuesFilters : {("state" :> "open")},
     limit : IF IsPaginated(res, op) THEN Limits ELSE {50},
     pullRequestNumber : {id.pullRequestNumber : id \in Identifiers},
     reviewId : {id.reviewId : id \in Identifiers},
     event : IF res = "review" /\ op = "create" THEN Events
             ELSE {"requestChanges"},
     organization : {id.organization : id \in Identifiers},
     email : {"a@b.c"}]

(* The binary attachments an input item can carry *)
BinaryChoices(res, op) ==
    IF ReadsBinaryData(res, op) \/ ReadsAsBinary(res, op)
    THEN {[defined |-> FALSE, props |-> Empty],
          [defined |-> TRUE, props |-> ("other" :> "b64-other")],
          [defined |-> TRUE, props |-> (BinaryPropertyName :> "b64-data")]}
    ELSE {[defined |-> FALSE, props |-> Empty]}

InputItem(k, bin) == [json |-> InputJson(k), binary |-> bin]

----------------------------------------------------------------------------
(* The router: the ladder over (resource, operation) of execute.  A frame
   holds the handler's locals requestMethod, endpoint, body, qs and
   returnAll; throws is the error the ladder raised, Undefined if none.   *)

(* The reset at the top of the loop body leaves body and qs as they are *)
ResetFrameKeepsBody(ra) ==
    [requestMethod |-> "GET", endpoint |-> "", body |-> body, qs |-> qs,
     returnAll |-> ra, throws |-> Undefined]

ResetFrame(ra) ==
    [requestMethod |-> "GET", endpoint |-> "", body |-> Empty, qs |-> Empty,
     returnAll |-> ra, throws |-> Undefined]

OwnerOf(fullOp, p) == IF fullOp # "user:invite" THEN p.owner ELSE ""

RepositoryOf(fullOp, p) ==
    IF fullOp # "user:getRepositories" /\ fullOp # "user:invite"
    THEN p.repository ELSE ""

(* Owner and repository change places in the path *)
RepoPathSwapped(owner, repository) == "/repos/" \o repository \o "/" \o owner

RepoPath(owner, repository) == "/repos/" \o owner \o "/" \o repository

ContentsEndpoint(owner, repository, filePath) ==
    RepoPath(owner, repository) \o "/contents/" \o encodeURI(filePath)

(* author, committer and branch of additionalParameters *)
CommitFields(p) ==
    (IF p.author # Undefined THEN ("author" :> p.author) ELSE Empty)
    @@ (IF p.committer # Undefined THEN ("committer" :> p.committer) ELSE Empty)
    @@ (IF p.branch # Undefined THEN ("branch" :> p.branch) ELSE Empty)

BranchOf(b) == IF "branch" \in DOMAIN b THEN b.branch ELSE Undefined

(* file:create and file:edit up to the SHA lookup *)
FileWriteHead(f, p) ==
    [f EXCEPT !.requestMethod = "PUT", !.body = CommitFields(p) @@ f.body]

(* file:create and file:edit from the commit message on *)
FileWriteTail(f, p, item, owner, repository) ==
    LET b1 == ("message" :> p.commitMessage) @@ f.body
    IN  IF p.binaryData = TRUE
        THEN IF ~item.binary.defined
             THEN [f EXCEPT !.body = b1, !.throws = ErrNoBinary]
             ELSE IF p.binaryPropertyName \notin DOMAIN item.binary.props
                  THEN [f EXCEPT !.body = b1, !.throws = ErrNoBinaryProperty]
                  ELSE [f EXCEPT
                          !.body = ("content" :>
                                      item.binary.props[p.binaryPropertyName])
                                   @@ b1,
                          !.endpoint =
                              ContentsEndpoint(owner, repository, p.filePath)]
        ELSE [f EXCEPT
                !.body = ("content" :> Base64(p.fileContent)) @@ b1,
                !.endpoint = ContentsEndpoint(owner, repository, p.filePath)]

(* file:delete up to the SHA lookup *)
FileDeleteHead(f, p) ==
    [f EXCEPT !.requestMethod = "DELETE",
              !.body = ("message" :> p.commitMessage) @@ CommitFields(p)
                       @@ f.body]

(* body.sha = await getFileSha(...), and what follows it in the branch *)
(* The looked-up sha never reaches the body *)
WithShaDropped(f, sha) == f

WithSha(f, sha) == [f EXCEPT !.body = ("sha" :> sha) @@ f.body]

FileDeleteTail(f, p, owner, repository) ==
    [f EXCEPT !.endpoint = ContentsEndpoint(owner, repository, p.filePath)]

FileRead(f, p, owner, repository) ==
    [f EXCEPT !.requestMethod = "GET",
              !.endpoint = ContentsEndpoint(owner, repository, p.filePath)]

(* The list comes out back to front *)
MapFieldReversed(list, field) ==
    [k \in 1..Len(list) |-> list[Len(list) + 1 - k][field]]

(* list.map((data) => data[field]) *)
MapField(list, field) == [k \in 1..Len(list) |-> list[k][field]]

(* The limit never reaches the query *)
PaginateNoLimit(f, ra, lim) == [f EXCEPT !.returnAll = ra]

(* returnAll = getNodeParameter('returnAll', 0), per_page when it is false *)
Paginate(f, ra, lim) ==
    [f EXCEPT !.returnAll = ra,
              !.qs = IF ra = FALSE THEN ("per_page" :> lim) @@ f.qs ELSE f.qs]

RouteIssue(f, op, p, owner, repository) ==
    LET issues == RepoPath(owner, repository) \o "/issues"
    IN  IF op = "create"
        THEN [f EXCEPT !.requestMethod = "POST",
                       !.body = ("title" :> p.title) @@ ("body" :> p.bodyText)
                                @@ ("labels" :> MapField(p.labels, "label"))
                                @@ ("assignees" :>
                                       MapField(p.assignees, "assignee"))
                                @@ f.body,
                       !.endpoint = issues]
        ELSE IF op = "createComment"
        THEN [f EXCEPT !.requestMethod = "POST",
                       !.body = ("body" :> p.bodyText) @@ f.body,
                       !.endpoint = issues \o "/" \o p.issueNumber
                                    \o "/comments"]
        ELSE IF op = "edit"
        THEN LET e == p.editFields
                 b1 == IF "labels" \in DOMAIN e
                       THEN ("labels" :> MapField(e.labels, "label")) @@ e
                       ELSE e
                 b2 == IF "assignees" \in DOMAIN b1
                       THEN ("assignees" :> MapField(b1.assignees, "assignee"))
                            @@ b1
                       ELSE b1
             IN  [f EXCEPT !.requestMethod = "PATCH", !.body = b2,
                           !.endpoint = issues \o "/" \o p.issueNumber]
        ELSE IF op = "get"
        THEN [f EXCEPT !.requestMethod = "GET",
                       !.endpoint = issues \o "/" \o p.issueNumber]
        ELSE IF op = "lock"
        THEN [f EXCEPT !.requestMethod = "PUT",
                       !.qs = ("lock_reason" :> p.lockReason) @@ f.qs,
                       !.endpoint = issues \o "/" \o p.issueNumber \o "/lock"]
        ELSE f

(* The release branch is a sequence of independent if statements *)
ReleaseCreate(f, op, p, rel) ==
    IF op = "create"
    THEN [f EXCEPT !.requestMethod = "POST",
                   !.body = ("tag_name" :> p.releaseTag) @@ p.additionalFields,
                   !.endpoint = rel]
    ELSE f

ReleaseDelete(f, op, p, rel) ==
    IF op = "delete"
    THEN [f EXCEPT !.requestMethod = "DELETE",
                   !.endpoint = rel \o "/" \o p.release_id]
    ELSE f

ReleaseGet(f, op, p, rel) ==
    IF op = "get"
    THEN [f EXCEPT !.requestMethod = "GET",
                   !.endpoint = rel \o "/" \o p.release_id]
    ELSE f

ReleaseGetAll(f, op, ra, lim, rel) ==
    IF op = "getAll"
    THEN Paginate([f EXCEPT !.requestMethod = "GET", !.endpoint = rel], ra, lim)
    ELSE f

(* The test of the update branch is also true for create *)
ReleaseUpdateAlsoOnCreate(f, op, p, rel) ==
    IF op = "update" \/ op = "create"
    THEN [f EXCEPT !.requestMethod = "PATCH", !.body = p.additionalFields,
                   !.endpoint = rel \o "/" \o p.release_id]
    ELSE f

ReleaseUpdate(f, op, p, rel) ==
    IF op = "update"
    THEN [f EXCEPT !.requestMethod = "PATCH", !.body = p.additionalFields,
                   !.endpoint = rel \o "/" \o p.release_id]
    ELSE f

RouteRelease(f, op, p, ra, lim, owner, repository) ==
    LET rel == RepoPath(owner, repository) \o "/releases"
    IN  ReleaseUpdate(
          ReleaseGetAll(
            ReleaseGet(
              ReleaseDelete(
                ReleaseCreate(f, op, p, rel), op, p, rel), op, p, rel),
            op, ra, lim, rel),
          op, p, rel)

RouteRepository(f, op, p, ra, lim, owner, repository) ==
    LET repo == RepoPath(owner, repository)
    IN  IF op = "listPopularPaths"
        THEN [f EXCEPT !.requestMethod = "GET",
                       !.endpoint = repo \o "/traffic/popular/paths"]
        ELSE IF op = "listReferrers"
        THEN [f EXCEPT !.requestMethod = "GET",
                       !.endpoint = repo \o "/traffic/popular/referrers"]
        ELSE IF op = "get"
        THEN [f EXCEPT !.requestMethod = "GET", !.endpoint = repo]
        ELSE IF op = "getLicense"
        THEN [f EXCEPT !.requestMethod = "GET",
                       !.endpoint = repo \o "/license"]
        ELSE IF op = "getIssues"
        THEN Paginate([f EXCEPT !.requestMethod = "GET",
                                !.qs = p.getRepositoryIssuesFilters,
                                !.endpoint = repo \o "/issues"], ra, lim)
        ELSE f

RouteReview(f, op, p, ra, lim, owner, repository) ==
    LET reviews == RepoPath(owner, repository) \o "/pulls/"
                   \o p.pullRequestNumber \o "/reviews"
    IN  IF op = "get"
        THEN [f EXCEPT !.requestMethod = "GET",
                       !.endpoint = reviews \o "/" \o p.reviewId]
        ELSE IF op = "getAll"
        THEN [Paginate([f EXCEPT !.requestMethod = "GET"], ra, lim)
                EXCEPT !.endpoint = reviews]
        ELSE IF op = "create"
        THEN LET ev == UpperSnake(p.event)
                 b1 == ("event" :> ev) @@ p.additionalFields @@ f.body
                 b2 == IF ev = "REQUEST_CHANGES" \/ ev = "COMMENT"
                       THEN ("body" :> p.bodyText) @@ b1
                       ELSE b1
             IN  [f EXCEPT !.requestMethod = "POST", !.body = b2,
                           !.endpoint = reviews]
        ELSE IF op = "update"
        THEN [f EXCEPT !.requestMethod = "PUT",
                       !.body = ("body" :> p.bodyText) @@ f.body,
                       !.endpoint = reviews \o "/" \o p.reviewId]
        ELSE f

RouteUser(f, op, p, ra, lim, owner) ==
    IF op = "getRepositories"
    THEN Paginate([f EXCEPT !.requestMethod = "GET",
                            !.endpoint = "/users/" \o owner \o "/repos"],
                  ra, lim)
    ELSE IF op = "invite"
    THEN [f EXCEPT !.requestMethod = "POST",
                   !.endpoint = "/orgs/" \o p.organization \o "/invitations",
                   !.body = ("email" :> p.email) @@ f.body]
    ELSE f

SHA_LOOKUP == "sha"
SEND == "send"
THROW == "throw"

(* The ladder without its final else: an unknown resource is sent *)
UnknownResourceSent(f) == [frame |-> f, next |-> SEND]

(* The final else of the ladder *)
UnknownResourceThrows(f) ==
    [frame |-> [f EXCEPT !.throws = ErrUnknownResource], next |-> THROW]

(* One pass of the ladder for item p up to its first await or throw:
   next says whether the handler now awaits getFileSha, sends the primary
   request, or has thrown.  f0 holds the locals as the reset at the top of
   the loop body left them, raParam and lim are the parameters read at
   index 0.                                                               *)
Route(res, op, p, item, f0, raParam, lim) ==
    LET fullOp == res \o ":" \o op
        owner == OwnerOf(fullOp, p)
        repository == RepositoryOf(fullOp, p)
        Sent(f) == [frame |-> f,
                    next |-> IF f.throws # Undefined THEN THROW ELSE SEND]
    IN  IF res = "file"
        THEN IF op \in {"create", "edit"}
             THEN IF op = "edit"
                  THEN [frame |-> FileWriteHead(f0, p), next |-> SHA_LOOKUP]
                  ELSE Sent(FileWriteTail(FileWriteHead(f0, p), p, item,
                                          owner, repository))
             ELSE IF op = "delete"
             THEN [frame |-> FileDeleteHead(f0, p), next |-> SHA_LOOKUP]
             ELSE IF op = "get" \/ op = "list"
             THEN Sent(FileRead(f0, p, owner, repository))
             ELSE Sent(f0)
        ELSE IF res = "issue"
        THEN Sent(RouteIssue(f0, op, p, owner, repository))
        ELSE IF res = "release"
        THEN Sent(RouteRelease(f0, op, p, raParam, lim, owner, repository))
        ELSE IF res = "repository"
        THEN Sent(RouteRepository(f0, op, p, raParam, lim, owner, repository))
        ELSE IF res = "review"
        THEN Sent(RouteReview(f0, op, p, raParam, lim, owner, repository))
        ELSE IF res = "user"
        THEN Sent(RouteUser(f0, op, p, raParam, lim, owner))
        ELSE UnknownResourceThrows(f0)

(* The rest of the file:edit / file:delete branch once the SHA is known *)
RouteAfterSha(op, p, item, f, sha, owner, repository) ==
    IF op = "edit"
    THEN FileWriteTail(WithSha(f, sha), p, item, owner, repository)
    ELSE FileDeleteTail(WithSha(f, sha), p, owner, repository)

----------------------------------------------------------------------------
(* Collaborators of execute that live in GenericFunctions *)

(* getFileSha: GET contents/{path}, scoped to the branch when one is given *)
ShaRequest(k, owner, repository, filePath, branch) ==
    [item |-> k, kind |-> "sha", method |-> "GET",
     endpoint |-> ContentsEndpoint(owner, repository, filePath),
     body |-> Empty,
     qs |-> IF branch # Undefined THEN ("ref" :> branch) ELSE Empty]

(* What the lookup's GET can answer: a failure, a directory listing, or a
   single file carrying its sha *)
FileResp(sha) == <<"file", sha>>

(* The error getFileSha raises on an answer, Undefined when it returns *)
getFileShaError(r) ==
    IF r = Failure THEN ErrRequest ELSE IF IsArray(r) THEN ErrSha ELSE Undefined

ShaReplies(k) == {Failure, ArrayResp(k, 0, 1)} \cup {FileResp(s) : s \in Shas}

(* githubApiRequestAllItems: the same request with an advancing page
   marker; a page that announces a further page is a full one, the last
   page has any length *)
PageQuery(q, n) == ("page" :> n) @@ q

(* returnData.push.apply(returnData, responseData) of the page loop *)
PageAccumulate(acc, elems) == acc \o elems
PageResp(elems, more) == <<"page", elems, more>>
HasNextPage(r) == r[3]
PageReplies(k, n) ==
    {Failure}
    \cup {PageResp(ArrayResp(k, n, len)[2], FALSE) : len \in 0..MaxResp}
    \cup (IF n < MaxPages
          THEN {PageResp(ArrayResp(k, n, MaxResp)[2], TRUE)} ELSE {})

(* What githubApiRequest can answer to a primary request: a failure, one
   object, or an array *)
ArrayLengths(fullOp) ==
    IF fullOp \in overwriteDataOperationsArray THEN 0..MaxResp ELSE {1}
PrimaryReplies(k, fullOp) ==
    {Failure, ObjectResp(k, 0)}
    \cup {ArrayResp(k, 0, len) : len \in ArrayLengths(fullOp)}

PrimaryRequest(k, f, q) ==
    [item |-> k, kind |-> "primary", method |-> f.requestMethod,
     endpoint |-> f.endpoint, body |-> f.body, qs |-> q]

(* The handler resumes although the request has not settled *)
SettleNever(reps, k, r) == reps

(* An awaited request has settled when the handler resumes *)
Settle(reps, k, r) == [reps EXCEPT ![k] = r]

InFlight == {k \in 1..Len(replies) : replies[k] = Pending}

----------------------------------------------------------------------------
(* Host helpers *)

NoBinary == [defined |-> FALSE, props |-> Empty]

(* this.helpers.returnJsonArray(returnData) *)
returnJsonArray(data) ==
    [k \in 1..Len(data) |-> [json |-> data[k], binary |-> NoBinary]]

(* this.helpers.prepareBinaryData(Buffer.from(content, 'base64'), path) *)
prepareBinaryData(resp) == "file-content"

(* The elements are put in front of what was accumulated *)
PushApplyFront(data, resp) == IF IsArray(resp) THEN resp[2] \o data ELSE data

(* returnData.push.apply(returnData, responseData): an array contributes
   its elements, an object without a length contributes nothing *)
PushApply(data, resp) == IF IsArray(resp) THEN data \o resp[2] ELSE data

----------------------------------------------------------------------------
(* Initial state: execute has read its run-wide parameters and input *)

(* An item whose parameters other than the identifiers are the defaults *)
PlainItem(pb) ==
    /\ pb[1].filePath = <<"f">>
    /\ pb[1].branch = Undefined
    /\ pb[1].binaryData = FALSE
    /\ pb[1].asBinaryProperty = FALSE
    /\ pb[1].limit = 50
    /\ pb[1].event = "requestChanges"
    /\ pb[1].labels = <<[label |-> "bug"], [label |-> "ui"]>>
    /\ pb[1].assignees = <<[assignee |-> "ann"]>>
    /\ pb[1].editFields = ("labels" :> <<[label |-> "bug"]>>)
                          @@ ("title" :> "t2")
    /\ ~pb[2].defined

(* Parameters and attachments of one input item; the attachments vary only
   where the operation looks at them, the identifiers only on items that
   are plain otherwise, those with reserved characters only where no SHA
   lookup comes before the request *)
ItemSpace(res, op) ==
    {pb \in ParamSpace(res, op) \X BinaryChoices(res, op) :
        /\ \E id \in Identifiers : \A name \in IdentifierNames :
              pb[1][name] = id[name]
        /\ pb[1].owner # "octo" => PlainItem(pb)
        /\ pb[1].owner = "oc/to" => ~VariesFilePath(res, op)
        /\ pb[1].filePath # <<"f">> =>
              (pb[1].branch = Undefined /\ pb[1].binaryData = FALSE)
        /\ pb[2].defined => (pb[1].binaryData \/ pb[1].asBinaryProperty)
        /\ (op = "edit" /\ pb[2].defined) =>
              BinaryPropertyName \in DOMAIN pb[2].props}

NoHistory ==
    [state |-> "pending", error |-> Undefined, resp |-> Pending,
     shape |-> "none"]

NoResult == [status |-> "running", error |-> Undefined, output |-> <<>>]

Init ==
    \E key \in RunKeys, n \in 0..MaxItems :
      \E its \in [1..n -> ItemSpace(key[1], key[2])] :
        /\ resource = key[1]
        /\ operation = key[2]
        /\ continueOnFail \in BOOLEAN
        /\ returnAllParam \in
              (IF IsPaginated(key[1], key[2]) THEN BOOLEAN ELSE {FALSE})
        /\ returnAllParam => \A k \in 1..n :
              its[k][1].limit = 50 /\ its[k][1].owner = "octo"
        /\ params = [k \in 1..n |-> its[k][1]]
        /\ items = [k \in 1..n |-> InputItem(k, its[k][2])]
        /\ input = [k \in 1..n |-> InputItem(k, its[k][2])]
        /\ i = 1
        /\ pc = "loop"
        /\ returnAll = FALSE
        /\ requestMethod = "GET"
        /\ endpoint = ""
        /\ body = Empty
        /\ qs = Empty
        /\ page = 0
        /\ pageData = <<>>
        /\ returnData = <<>>
        /\ requests = <<>>
        /\ replies = <<>>
        /\ hist = [k \in 1..n |-> NoHistory]
        /\ result = NoResult

----------------------------------------------------------------------------
(* Pieces of the handler *)

Config == <<resource, operation, continueOnFail, returnAllParam, params>>

InAllowLists(fullOp) ==
    fullOp \in overwriteDataOperations \/ fullOp \in overwriteDataOperationsArray

SetLocals(f) ==
    /\ requestMethod' = f.requestMethod
    /\ endpoint' = f.endpoint
    /\ body' = f.body
    /\ qs' = f.qs
    /\ returnAll' = f.returnAll

(* A catch block that never rethrows *)
CatchAlwaysContinue(msg) ==
    /\ hist' = [hist EXCEPT ![i].state = "failed", ![i].error = msg]
    /\ IF InAllowLists(fullOperation)
       THEN /\ returnData' = Append(returnData, ErrorEntry(msg))
            /\ items' = items
            /\ input' = input
       ELSE /\ items' = [items EXCEPT ![i].json = ErrorEntry(msg)]
            /\ input' = [input EXCEPT ![i].json = ErrorEntry(msg)]
            /\ returnData' = returnData
    /\ i' = i + 1
    /\ pc' = "loop"
    /\ result' = result

(* A catch block that writes every captured error into the failing item,
   whatever the operation *)
CatchAnnotatesItem(msg) ==
    /\ hist' = [hist EXCEPT ![i].state = "failed", ![i].error = msg]
    /\ IF continueOnFail
       THEN /\ items' = [items EXCEPT ![i].json = ErrorEntry(msg)]
            /\ input' = [input EXCEPT ![i].json = ErrorEntry(msg)]
            /\ returnData' = returnData
            /\ i' = i + 1
            /\ pc' = "loop"
            /\ result' = result
       ELSE /\ result' = [status |-> "thrown", error |-> msg, output |-> <<>>]
            /\ pc' = "done"
            /\ UNCHANGED <<items, input, returnData, i>>

(* A catch block that takes the error and ends the loop with what was
   gathered so far *)
CatchStopsLoop(msg) ==
    /\ hist' = [hist EXCEPT ![i].state = "failed", ![i].error = msg]
    /\ IF continueOnFail
       THEN /\ IF InAllowLists(fullOperation)
               THEN /\ returnData' = Append(returnData, ErrorEntry(msg))
                    /\ items' = items
                    /\ input' = input
               ELSE /\ items' = [items EXCEPT ![i].json = ErrorEntry(msg)]
                    /\ input' = [input EXCEPT ![i].json = ErrorEntry(msg)]
                    /\ returnData' = returnData
            /\ i' = Len(items) + 1
            /\ pc' = "loop"
            /\ result' = result
       ELSE /\ result' = [status |-> "thrown", error |-> msg, output |-> <<>>]
            /\ pc' = "done"
            /\ UNCHANGED <<items, input, returnData, i>>

(* The catch block of the loop *)
Catch(msg) ==
    /\ hist' = [hist EXCEPT ![i].state = "failed", ![i].error = msg]
    /\ IF continueOnFail
       THEN /\ IF InAllowLists(fullOperation)
               THEN /\ returnData' = Append(returnData, ErrorEntry(msg))
                    /\ items' = items
                    /\ input' = input
               ELSE /\ items' = [items EXCEPT ![i].json = ErrorEntry(msg)]
                    /\ input' = [input EXCEPT ![i].json = ErrorEntry(msg)]
                    /\ returnData' = returnData
            /\ i' = i + 1
            /\ pc' = "loop"
            /\ result' = result
       ELSE /\ result' = [status |-> "thrown", error |-> msg, output |-> <<>>]
            /\ pc' = "done"
            /\ UNCHANGED <<items, input, returnData, i>>

(* returnAll is not looked at: one githubApiRequest whatever it says *)
SendSinglePage(f, reps) ==
    /\ requests' = Append(requests, PrimaryRequest(i, f, f.qs))
    /\ replies' = Append(reps, Pending)
    /\ pc' = "primary"
    /\ page' = page
    /\ pageData' = <<>>
    /\ UNCHANGED <<items, input, returnData, hist, result, i>>

(* The fetch of all pages begins with the second page *)
SendFromSecondPage(f, reps) ==
    /\ requests' = Append(requests,
                      PrimaryRequest(i, f, IF f.returnAll = TRUE
                                           THEN PageQuery(f.qs, 2) ELSE f.qs))
    /\ replies' = Append(reps, Pending)
    /\ pc' = IF f.returnAll = TRUE THEN "pages" ELSE "primary"
    /\ page' = IF f.returnAll = TRUE THEN 2 ELSE page
    /\ pageData' = <<>>
    /\ UNCHANGED <<items, input, returnData, hist, result, i>>

(* if (returnAll === true) githubApiRequestAllItems(...) else
   githubApiRequest(...), up to the await; reps is replies as the step
   found or left it *)
Send(f, reps) ==
    /\ requests' = Append(requests,
                      PrimaryRequest(i, f, IF f.returnAll = TRUE
                                           THEN PageQuery(f.qs, 1) ELSE f.qs))
    /\ replies' = Append(reps, Pending)
    /\ pc' = IF f.returnAll = TRUE THEN "pages" ELSE "primary"
    /\ page' = IF f.returnAll = TRUE THEN 1 ELSE page
    /\ pageData' = <<>>
    /\ UNCHANGED <<items, input, returnData, hist, result, i>>

(* The attachments are written into the mapping of the input item itself *)
AttachBinaryInPlace(resp) ==
    LET name == params[i].binaryPropertyName
        old == IF items[i].binary.defined THEN items[i].binary.props ELSE Empty
        newItem == [json |-> items[i].json,
                    binary |-> [defined |-> TRUE,
                                props |-> (name :> prepareBinaryData(resp))
                                          @@ old]]
    IN  /\ items' = [items EXCEPT ![i] = newItem]
        /\ input' = [input EXCEPT ![i].binary = newItem.binary]
        /\ result' = [status |-> "returned", error |-> Undefined,
                      output |-> items']
        /\ pc' = "done"
        /\ hist' = [hist EXCEPT ![i].state = "ok", ![i].resp = resp,
                                ![i].shape = "binary"]
        /\ UNCHANGED <<returnData, i>>

(* file:get with asBinaryProperty: the new item and the return inside the
   loop *)
AttachBinary(resp) ==
    LET name == params[i].binaryPropertyName
        old == IF items[i].binary.defined THEN items[i].binary.props ELSE Empty
        newItem == [json |-> items[i].json,
                    binary |-> [defined |-> TRUE,
                                props |-> (name :> prepareBinaryData(resp))
                                          @@ old]]
    IN  /\ items' = [items EXCEPT ![i] = newItem]
        /\ result' = [status |-> "returned", error |-> Undefined,
                      output |-> items']
        /\ pc' = "done"
        /\ hist' = [hist EXCEPT ![i].state = "ok", ![i].resp = resp,
                                ![i].shape = "binary"]
        /\ UNCHANGED <<input, returnData, i>>

Locals ==
    [requestMethod |-> requestMethod, endpoint |-> endpoint, body |-> body,
     qs |-> qs, returnAll |-> returnAll, throws |-> Undefined]

(* The error of getFileSha is swallowed and the branch goes on *)
ShaErrorIgnored(msg, reps) ==
    LET f == [Locals EXCEPT
                !.endpoint = ContentsEndpoint(OwnerOf(fullOperation, params[i]),
                                 RepositoryOf(fullOperation, params[i]),
                                 params[i].filePath)]
    IN  SetLocals(f) /\ Send(f, reps)

(* getFileSha threw inside the try block: control goes to the catch block *)
ShaErrorThrown(msg, reps) ==
    /\ Catch(msg)
    /\ replies' = reps
    /\ UNCHANGED <<requests, page, pageData, requestMethod, endpoint, body,
                   qs, returnAll>>

(* A directory listing is taken for a file *)
FolderNeverDetected(resp) == FALSE

(* Array.isArray(responseData) of the binary delivery *)
IsFolder(resp) == IsArray(resp)

(* release:delete hands on whatever the API answered *)
SynthesizeNothing(fullOp, resp) == resp

(* if (fullOperation === 'release:delete') responseData = { success: true } *)
Synthesize(fullOp, resp) ==
    IF fullOp = "release:delete" THEN SuccessEntry ELSE resp

(* A reshaper that looks at the response: an array is flattened, anything
   else replaces the item *)
ReshapeByResponseShape(resp) ==
    IF fullOperation = "file:get" /\ params[i].asBinaryProperty = TRUE
    THEN IF IsFolder(resp) THEN Catch(ErrFolder) ELSE AttachBinary(resp)
    ELSE /\ returnData' = IF IsArray(resp) THEN returnData \o resp[2]
                          ELSE Append(returnData, resp)
         /\ hist' = [hist EXCEPT
               ![i].state = "ok", ![i].resp = resp,
               ![i].shape = IF IsArray(resp) THEN "flatten" ELSE "replace"]
         /\ i' = i + 1
         /\ pc' = "loop"
         /\ UNCHANGED <<items, input, result>>

(* A reshaper that stores the response in the item of a pass-through
   operation *)
ReshapeWritesItem(resp) ==
    IF fullOperation = "file:get" /\ params[i].asBinaryProperty = TRUE
    THEN IF IsFolder(resp) THEN Catch(ErrFolder) ELSE AttachBinary(resp)
    ELSE LET responseData == Synthesize(fullOperation, resp)
         IN  /\ returnData' =
                   IF fullOperation \in overwriteDataOperations
                   THEN Append(returnData, responseData)
                   ELSE IF fullOperation \in overwriteDataOperationsArray
                        THEN PushApply(returnData, responseData)
                        ELSE returnData
             /\ items' = IF InAllowLists(fullOperation) THEN items
                         ELSE [items EXCEPT ![i].json = responseData]
             /\ hist' = [hist EXCEPT
                   ![i].state = "ok", ![i].resp = responseData,
                   ![i].shape =
                       IF fullOperation \in overwriteDataOperations
                       THEN "replace"
                       ELSE IF fullOperation \in overwriteDataOperationsArray
                            THEN "flatten" ELSE "passthrough"]
             /\ i' = i + 1
             /\ pc' = "loop"
             /\ UNCHANGED <<input, result>>

(* What the handler does with responseData once the await returned *)
Reshape(resp) ==
    IF fullOperation = "file:get" /\ params[i].asBinaryProperty = TRUE
    THEN IF IsFolder(resp) THEN Catch(ErrFolder) ELSE AttachBinary(resp)
    ELSE LET responseData == Synthesize(fullOperation, resp)
         IN  /\ returnData' =
                   IF fullOperation \in overwriteDataOperations
                   THEN Append(returnData, responseData)
                   ELSE IF fullOperation \in overwriteDataOperationsArray
                        THEN PushApply(returnData, responseData)
                        ELSE returnData
             /\ hist' = [hist EXCEPT
                   ![i].state = "ok", ![i].resp = responseData,
                   ![i].shape =
                       IF fullOperation \in overwriteDataOperations
                       THEN "replace"
                       ELSE IF fullOperation \in overwriteDataOperationsArray
                            THEN "flatten" ELSE "passthrough"]
             /\ i' = i + 1
             /\ pc' = "loop"
             /\ UNCHANGED <<items, input, result>>

----------------------------------------------------------------------------
(* Actions: the handler runs from one await to the next *)

(* Top of the loop body for item i, up to the first await or throw *)
StartItem ==
    /\ pc = "loop"
    /\ i <= Len(items)
    /\ LET p == params[i]
           r == Route(resource, operation, p, items[i],
                      ResetFrame(returnAll), returnAllParam, params[1].limit)
           f == r.frame
       IN  /\ SetLocals(f)
           /\ IF r.next = THROW
              THEN /\ Catch(f.throws)
                   /\ UNCHANGED <<requests, replies, page, pageData>>
              ELSE IF r.next = SHA_LOOKUP
              THEN /\ requests' = Append(requests,
                          ShaRequest(i, OwnerOf(fullOperation, p),
                                     RepositoryOf(fullOperation, p),
                                     p.filePath, BranchOf(f.body)))
                   /\ replies' = Append(replies, Pending)
                   /\ pc' = "sha"
                   /\ UNCHANGED <<items, input, returnData, hist, result, i, page,
                                  pageData>>
              ELSE Send(f, replies)
    /\ UNCHANGED Config

(* getFileSha returns or throws; the branch goes on to the primary request *)
ShaReply ==
    /\ pc = "sha"
    /\ \E r \in ShaReplies(i) :
        LET k == Len(requests)
            reps == Settle(replies, k, r)
            p == params[i]
        IN  IF getFileShaError(r) # Undefined
            THEN ShaErrorThrown(getFileShaError(r), reps)
            ELSE LET f == RouteAfterSha(operation, p, items[i], Locals, r[2],
                                        OwnerOf(fullOperation, p),
                                        RepositoryOf(fullOperation, p))
                 IN  /\ SetLocals(f)
                     /\ IF f.throws # Undefined
                        THEN /\ Catch(f.throws)
                             /\ replies' = reps
                             /\ UNCHANGED <<requests, page, pageData>>
                        ELSE /\ requests' = Append(requests,
                                               PrimaryRequest(i, f, f.qs))
                             /\ replies' = Append(reps, Pending)
                             /\ pc' = "primary"
                             /\ UNCHANGED <<items, input, returnData, hist, result,
                                            i, page, pageData>>
    /\ UNCHANGED Config

(* githubApiRequest returns or throws *)
PrimaryReply ==
    /\ pc = "primary"
    /\ \E r \in PrimaryReplies(i, fullOperation) :
        /\ replies' = Settle(replies, Len(requests), r)
        /\ IF r = Failure THEN Catch(ErrRequest) ELSE Reshape(r)
    /\ UNCHANGED <<requests, page, pageData, requestMethod, endpoint, body,
                   qs, returnAll>>
    /\ UNCHANGED Config

(* One round of githubApiRequestAllItems *)
PageReply ==
    /\ pc = "pages"
    /\ \E r \in PageReplies(i, page) :
        LET reps == Settle(replies, Len(requests), r)
        IN  IF r = Failure
            THEN /\ Catch(ErrRequest)
                 /\ replies' = reps
                 /\ UNCHANGED <<requests, page, pageData>>
            ELSE IF HasNextPage(r)
            THEN /\ pageData' = PageAccumulate(pageData, r[2])
                 /\ page' = page + 1
                 /\ requests' = Append(requests,
                        [requests[Len(requests)] EXCEPT
                            !.qs = PageQuery(qs, page + 1)])
                 /\ replies' = Append(reps, Pending)
                 /\ UNCHANGED <<items, input, returnData, hist, result, i, pc>>
            ELSE /\ Reshape(<<"array", PageAccumulate(pageData, r[2])>>)
                 /\ replies' = reps
                 /\ UNCHANGED <<requests, page, pageData>>
    /\ UNCHANGED <<requestMethod, endpoint, body, qs, returnAll>>
    /\ UNCHANGED Config

(* After the loop: the return of execute *)
Finish ==
    /\ pc = "loop"
    /\ i > Len(items)
    /\ result' = [status |-> "returned", error |-> Undefined,
                  output |-> IF InAllowLists(fullOperation)
                             THEN returnJsonArray(returnData)
                             ELSE items]
    /\ pc' = "done"
    /\ UNCHANGED <<items, input, i, returnAll, requestMethod, endpoint, body, qs,
                   page, pageData, returnData, requests, replies, hist>>
    /\ UNCHANGED Config

Next == StartItem \/ ShaReply \/ PrimaryReply \/ PageReply \/ Finish

Spec == Init /\ [][Next]_vars

(* An awaited page request settles, by an answer or by an error of the
   HTTP client, and the page loop then runs on to its next await or to its
   end *)
LiveSpec == Spec /\ WF_vars(PageReply)

----------------------------------------------------------------------------
(* Vocabulary of the properties *)

Returned == result.status = "returned"
Thrown == result.status = "thrown"
ItemIds == 1..Len(items)
Failed(k) == hist[k].state = "failed"
Succeeded(k) == hist[k].state = "ok"
RequestIds == 1..Len(requests)
PrimaryOf(k) ==
    {m \in RequestIds : requests[m].item = k /\ requests[m].kind = "primary"}
BinaryDelivery(k) ==
    fullOperation = "file:get" /\ params[k].asBinaryProperty = TRUE
NeedsSha == fullOperation \in {"file:edit", "file:delete"}

IsPrefix(a, b) == Len(a) <= Len(b) /\ SubSeq(b, 1, Len(a)) = a

RECURSIVE ConcatUpTo(_, _)
ConcatUpTo(contribution, n) ==
    IF n = 0 THEN <<>>
    ELSE ConcatUpTo(contribution, n - 1) \o contribution[n]

(* What item k owes the run-wide output of an allow-listed operation; a
   failing item owes its error entry when the run goes on after it *)
Contribution(k) ==
    IF Failed(k)
    THEN IF continueOnFail THEN <<ErrorEntry(hist[k].error)>> ELSE <<>>
    ELSE IF ~Succeeded(k) THEN <<>>
    ELSE IF fullOperation \in overwriteDataOperations THEN <<hist[k].resp>>
    ELSE IF IsArray(hist[k].resp) THEN hist[k].resp[2] ELSE <<>>

Contributions == [k \in ItemIds |-> Contribution(k)]

(* The output the operation type prescribes for the items as they ended *)
PrescribedOutput ==
    IF InAllowLists(fullOperation)
    THEN returnJsonArray(ConcatUpTo(Contributions, Len(items)))
    ELSE [k \in ItemIds |->
            [json |-> IF Failed(k) THEN ErrorEntry(hist[k].error)
                      ELSE InputJson(k),
             binary |-> items[k].binary]]

----------------------------------------------------------------------------
(* C1: with continue-on-failure enabled, whatever subset of the items'
   calls fail, execute returns normally, every non-failing item's result is
   in the output as its operation type prescribes, and every failing item
   is in the output as an error-annotated result.                          *)
C1_ContinueOnFailKeepsEveryItem ==
    continueOnFail =>
        /\ ~Thrown
        /\ Returned =>
            /\ \A k \in ItemIds : Failed(k) \/ Succeeded(k)
            /\ \A k \in ItemIds : Failed(k) =>
                  \E n \in 1..Len(result.output) :
                      result.output[n].json = ErrorEntry(hist[k].error)
            /\ (\A k \in ItemIds : ~BinaryDelivery(k)) =>
                  result.output = PrescribedOutput

(* C2: with continue-on-failure disabled, the first failing item makes
   execute throw that item's error: nothing is returned, not even what
   earlier items produced, and no request is issued for a later item.     *)
C2_FirstErrorAborts ==
    ~continueOnFail =>
        \A k \in ItemIds : Failed(k) =>
            /\ Thrown
            /\ pc = "done"
            /\ result.error = hist[k].error
            /\ result.output = <<>>
            /\ \A m \in RequestIds : requests[m].item <= k
            /\ \A j \in ItemIds : j > k => hist[j].state = "pending"

C2_Witness ==
    /\ ~continueOnFail
    /\ Thrown
    /\ Len(items) = 2
    /\ Failed(2)
    /\ Len(returnData) > 0

(* C3: for file:edit and file:delete the SHA lookup of an item is issued
   and answered before the item's PUT/DELETE is issued, and the body.sha
   of that request is the sha the lookup returned for the item's owner,
   repository, path and branch.                                           *)
C3_ShaLookupPrecedesMutation ==
    NeedsSha =>
        \A m \in RequestIds : requests[m].kind = "primary" =>
            LET k == requests[m].item
                p == params[k]
            IN  /\ m > 1
                /\ requests[m - 1].kind = "sha"
                /\ requests[m - 1].item = k
                /\ requests[m - 1] =
                      ShaRequest(k, p.owner, p.repository, p.filePath, p.branch)
                /\ replies[m - 1] \in {FileResp(sh) : sh \in Shas}
                /\ requests[m].method \in {"PUT", "DELETE"}
                /\ "sha" \in DOMAIN requests[m].body
                /\ requests[m].body.sha = replies[m - 1][2]

C3_Witness ==
    /\ fullOperation = "file:edit"
    /\ Len(requests) = 4
    /\ requests[4].kind = "primary"
    /\ params[1] # params[2]
    /\ replies[1] # replies[3]

(* C4: when the SHA lookup of a file:edit or file:delete item fails (its
   GET fails or answers a directory listing), the PUT/DELETE of that item
   is never issued, with continue-on-failure enabled or not.              *)
C4_NoMutationAfterFailedLookup ==
    \A m \in RequestIds :
        (requests[m].kind = "sha" /\ replies[m] # Pending
            /\ getFileShaError(replies[m]) # Undefined)
        => PrimaryOf(requests[m].item) = {}

C4_Witness ==
    /\ continueOnFail
    /\ NeedsSha
    /\ Len(requests) = 3
    /\ replies[1] = ArrayResp(1, 0, 1)
    /\ requests[3].kind = "primary"
    /\ requests[3].item = 2

(* C5: when resource is none of file, issue, release, repository, review,
   user, the first item fails with the 'resource is not known' error and no
   GitHub request, primary or SHA lookup, has been issued.                *)
C5_UnknownResourceThrowsBeforeAnyRequest ==
    resource \notin Resources =>
        /\ requests = <<>>
        /\ \A k \in ItemIds : (k < i \/ pc = "done") /\ hist[k].state # "pending"
              => (Failed(k) /\ hist[k].error = ErrUnknownResource)
        /\ (Len(items) > 0 /\ (i > 1 \/ pc = "done")) =>
              (Failed(1) /\ hist[1].error = ErrUnknownResource)

C5_Witness ==
    /\ resource = UnknownResource
    /\ Len(items) = 2
    /\ Failed(1)
    /\ hist[1].error = ErrUnknownResource
    /\ requests = <<>>

(* C6: an operation that is not one of the operations of the selected known
   resource fails with a configuration error, as an unknown resource does,
   and no GitHub request is issued for it.                                *)
C6_UnknownOperationThrowsBeforeAnyRequest ==
    (resource \in Resources /\ operation \notin OfferedOperations(resource)) =>
        /\ requests = <<>>
        /\ \A k \in ItemIds : hist[k].state # "pending" => Failed(k)

(* C7: in a run that completes without error and without return-all
   pagination, exactly one primary request was issued for each input item,
   file:get with binary delivery included.                                *)
C7_OnePrimaryRequestPerItem ==
    (Returned /\ returnAll = FALSE /\ \A k \in ItemIds : ~Failed(k)) =>
        \A k \in ItemIds : Cardinality(PrimaryOf(k)) = 1

(* C8: requests are issued one after the other in item order: every
   request of item k has been answered before a request of item k+1 is
   issued, and at most one request is in flight at any time.              *)
C8_RequestsStrictlySequential ==
    /\ Cardinality(InFlight) <= 1
    /\ InFlight \subseteq {Len(requests)}
    /\ \A m \in RequestIds : m < Len(requests) =>
          /\ replies[m] # Pending
          /\ requests[m].item <= requests[m + 1].item
    /\ \A m \in RequestIds : requests[m].item <= i

C8_Witness ==
    /\ Len(requests) = 3
    /\ requests[1].item = 1
    /\ requests[2].item = 1
    /\ requests[3].item = 2
    /\ InFlight = {3}

(* The response shape the two allow-lists give a key *)
ShapeOfKey(fullOp) ==
    IF fullOp \in overwriteDataOperations THEN "replace"
    ELSE IF fullOp \in overwriteDataOperationsArray THEN "flatten"
    ELSE "untouched"

(* Pass-through and binary-attach are the one shape that leaves the item's
   payload alone *)
ShapeClass(shape) ==
    IF shape \in {"passthrough", "binary"} THEN "untouched" ELSE shape

AllowListsDisjoint ==
    overwriteDataOperations \cap overwriteDataOperationsArray = {}

(* C9 as stated: the allow-lists are disjoint and the shape applied to a
   response (replace item, append to the flattened array, leave item
   untouched/binary-attach) is the one the key's allow-list membership
   fixes, for the whole run.                                              *)
C9_ShapeFixedByKeyAlone ==
    /\ AllowListsDisjoint
    /\ \A k \in ItemIds : Succeeded(k) =>
          ShapeClass(hist[k].shape) = ShapeOfKey(fullOperation)

(* C9 amended: the allow-lists are disjoint, and the shape applied to an
   item's response is fixed by the key and, for file:get only, by that
   item's binary-delivery flag (replace-single when the flag is off,
   binary-attach when it is on); it is the same for an object and for an
   array response.                                                        *)
C9_ShapeFixedByKeyAndBinaryFlag ==
    /\ AllowListsDisjoint
    /\ \A k \in ItemIds : Succeeded(k) =>
          ShapeClass(hist[k].shape) =
              IF BinaryDelivery(k) THEN "untouched"
              ELSE ShapeOfKey(fullOperation)
    /\ \A k \in ItemIds : Succeeded(k) =>
          (hist[k].shape = "binary") = BinaryDelivery(k)

C9_Witness ==
    /\ fullOperation = "file:get"
    /\ Len(items) = 2
    /\ Succeeded(1)
    /\ hist[1].shape = "replace"
    /\ IsArray(hist[1].resp)
    /\ Succeeded(2)
    /\ hist[2].shape = "binary"

FlattenAppendsOnly ==
    fullOperation \in overwriteDataOperationsArray
        => IsPrefix(returnData, returnData')

(* C10: for a replace-flatten operation the run-wide output is the
   concatenation, in item order, of what each item contributed (the
   elements of its response array in their order; a failing item's error
   entry), and the accumulation is only ever appended to.                 *)
C10_FlattenedOutputInItemOrder ==
    /\ [](fullOperation \in overwriteDataOperationsArray =>
            /\ returnData = ConcatUpTo(Contributions, Len(items))
            /\ Returned =>
                  result.output = returnJsonArray(
                                      ConcatUpTo(Contributions, Len(items))))
    /\ [][FlattenAppendsOnly]_vars

C10_Witness ==
    /\ fullOperation \in overwriteDataOperationsArray
    /\ Returned
    /\ Len(items) = 2
    /\ Succeeded(1)
    /\ Succeeded(2)
    /\ IsArray(hist[1].resp)
    /\ Len(hist[1].resp[2]) = 2
    /\ IsArray(hist[2].resp)
    /\ Len(hist[2].resp[2]) = 1
    /\ Len(result.output) = 3

----------------------------------------------------------------------------
(* The answer the API gave to the one primary request of item k *)
AnswerTo(k) == replies[CHOOSE m \in PrimaryOf(k) : TRUE]

NoBinaryDelivery == \A k \in ItemIds : ~BinaryDelivery(k)

(* C11: a replace-single operation, file:get with binary delivery set
   aside, run over n items and completed, with or without captured errors,
   returns exactly n entries, and entry k is the response of item k (the
   fixed marker for release:delete) or the error annotation of item k.    *)
C11_ReplaceSingleOneEntryPerItem ==
    (fullOperation \in overwriteDataOperations /\ NoBinaryDelivery /\ Returned)
    => /\ Len(result.output) = Len(items)
       /\ \A k \in ItemIds :
             /\ Failed(k) \/ Succeeded(k)
             /\ Failed(k) =>
                   result.output[k].json = ErrorEntry(hist[k].error)
             /\ Succeeded(k) =>
                   /\ Cardinality(PrimaryOf(k)) = 1
                   /\ result.output[k].json =
                         IF fullOperation = "release:delete"
                         THEN SuccessEntry ELSE AnswerTo(k)

C11_Witness ==
    /\ fullOperation = "issue:get"
    /\ Returned
    /\ Len(items) = 2
    /\ Failed(1)
    /\ Succeeded(2)
    /\ Len(result.output) = 2
    /\ result.output[2].json = ObjectResp(2, 0)

----------------------------------------------------------------------------
(* A step in which the catch block took the error of item i and went on *)
CaughtAndContinued ==
    /\ continueOnFail
    /\ i \in ItemIds
    /\ hist[i].state = "pending"
    /\ hist'[i].state = "failed"

(* What that step may change: one error entry at the end of the run-wide
   output, or the json of the failing item, and nothing else of either *)
CatchEffect ==
    CaughtAndContinued =>
        /\ IF InAllowLists(fullOperation)
           THEN /\ returnData' = Append(returnData, ErrorEntry(hist'[i].error))
                /\ items' = items
           ELSE /\ returnData' = returnData
                /\ items'[i].json = ErrorEntry(hist'[i].error)
                /\ items'[i].binary = items[i].binary
                /\ \A k \in ItemIds \ {i} : items'[k] = items[k]
        /\ Len(items') = Len(items)
        /\ i' = i + 1
        /\ pc' = "loop"
        /\ result' = result

(* C12: with continue-on-failure enabled, the error of a failing item is
   appended as exactly one error entry to the run-wide output when the
   operation is replace-single or replace-flatten, and otherwise replaces
   only that item's json; the other items and the entries accumulated so
   far stay as they were, and the loop goes on with the next item, which
   every failing item of such a run has done.                             *)
C12_CapturedErrorGoesToOutputOrItem ==
    /\ [](continueOnFail =>
            \A k \in ItemIds : Failed(k) => (i > k /\ ~Thrown))
    /\ [][CatchEffect]_vars

C12_Witness ==
    /\ continueOnFail
    /\ fullOperation = "issue:lock"
    /\ Len(items) = 2
    /\ Failed(1)
    /\ items[1].json = ErrorEntry(ErrRequest)
    /\ Succeeded(2)
    /\ items[2].json = InputJson(2)
    /\ Returned

----------------------------------------------------------------------------
PassThrough == resource \in Resources /\ ~InAllowLists(fullOperation)

(* C13: for an operation in neither allow-list, such as issue:lock, the
   request is issued once per item all the same, and a run without errors
   returns the input items, same length, same order, same json; at no time
   is a response written into an item or into the run-wide output.        *)
C13_PassThroughReturnsInputItems ==
    PassThrough =>
        /\ returnData = <<>>
        /\ \A k \in ItemIds :
              /\ items[k].binary = input[k].binary
              /\ Cardinality(PrimaryOf(k)) <= 1
              /\ ~Failed(k) => items[k] = input[k]
              /\ ~Failed(k) => items[k].json = InputJson(k)
              /\ Succeeded(k) =>
                    /\ Cardinality(PrimaryOf(k)) = 1
                    /\ replies[CHOOSE m \in PrimaryOf(k) : TRUE] # Pending
        /\ (Returned /\ \A k \in ItemIds : ~Failed(k)) =>
              /\ Len(result.output) = Len(items)
              /\ \A k \in ItemIds :
                    /\ Succeeded(k)
                    /\ result.output[k].json = InputJson(k)
                    /\ result.output[k] = input[k]

C13_Witness ==
    /\ fullOperation = "issue:lock"
    /\ Returned
    /\ Len(items) = 2
    /\ Succeeded(1)
    /\ Succeeded(2)
    /\ replies = <<ObjectResp(1, 0), ObjectResp(2, 0)>>
    /\ requests[2].method = "PUT"
    /\ result.output = <<InputItem(1, NoBinary), InputItem(2, NoBinary)>>

----------------------------------------------------------------------------
(* The pages the API answered for item k, in the order of the requests *)
RECURSIVE PagesUpTo(_, _)
PagesUpTo(k, m) ==
    IF m = 0 THEN <<>>
    ELSE IF requests[m].item = k /\ requests[m].kind = "primary"
              /\ replies[m] # Pending /\ replies[m] # Failure
         THEN PagesUpTo(k, m - 1) \o replies[m][2]
         ELSE PagesUpTo(k, m - 1)

PageSizes(k) ==
    [n \in 1..Cardinality(PrimaryOf(k)) |->
        LET m == CHOOSE x \in PrimaryOf(k) :
                    Cardinality({y \in PrimaryOf(k) : y <= x}) = n
        IN  IF replies[m] = Pending \/ replies[m] = Failure THEN -1
            ELSE Len(replies[m][2])]

(* C14: with return-all selected for a paginated operation, the result of
   an item is the concatenation of the elements of all its pages, pages in
   the order requested and elements in the order answered, none dropped or
   repeated; pages of sizes [MaxResp, MaxResp, 1] give 2 * MaxResp + 1
   elements.                                                              *)
C14_ReturnAllConcatenatesPages ==
    (IsPaginated(resource, operation) /\ returnAllParam) =>
        \A k \in ItemIds : Succeeded(k) =>
            /\ hist[k].resp = <<"array", PagesUpTo(k, Len(requests))>>
            /\ \A m \in PrimaryOf(k) :
                  /\ "page" \in DOMAIN requests[m].qs
                  /\ requests[m].qs.page =
                        Cardinality({y \in PrimaryOf(k) : y <= m})
                  /\ HasNextPage(replies[m]) <=>
                        (\E y \in PrimaryOf(k) : y > m)
            /\ \A a, b \in 1..Len(hist[k].resp[2]) :
                  a # b => hist[k].resp[2][a] # hist[k].resp[2][b]
            /\ (Returned /\ Len(items) = 1) =>
                  result.output = returnJsonArray(PagesUpTo(k, Len(requests)))

C14_Witness ==
    /\ fullOperation = "release:getAll"
    /\ returnAllParam
    /\ Returned
    /\ Len(items) = 1
    /\ PageSizes(1) = <<MaxResp, MaxResp, 1>>
    /\ Len(result.output) = 2 * MaxResp + 1

----------------------------------------------------------------------------
(* C15: with return-all false for a paginated operation, one request is
   issued per item, its query carrying per_page equal to the limit the run
   is configured with (the parameter is read once, at the first item) and
   no page marker; only the elements of that one answer are output, and no
   second page is asked for, full page or not.                            *)
C15_LimitedListIsOneRequest ==
    (IsPaginated(resource, operation) /\ ~returnAllParam) =>
        /\ \A m \in RequestIds :
              /\ requests[m].kind = "primary"
              /\ DOMAIN requests[m].qs \cap {"per_page", "page"} = {"per_page"}
              /\ requests[m].qs.per_page = params[1].limit
        /\ \A k \in ItemIds :
              /\ Cardinality(PrimaryOf(k)) <= 1
              /\ (Failed(k) \/ Succeeded(k)) => Cardinality(PrimaryOf(k)) = 1
              /\ Succeeded(k) => hist[k].resp = AnswerTo(k)
        /\ (Returned /\ Len(items) = 1 /\ Succeeded(1)) =>
              result.output =
                  returnJsonArray(IF IsArray(AnswerTo(1))
                                  THEN AnswerTo(1)[2] ELSE <<>>)

C15_Witness ==
    /\ fullOperation = "repository:getIssues"
    /\ ~returnAllParam
    /\ Returned
    /\ Len(items) = 1
    /\ params[1].limit = 20
    /\ requests = <<[item |-> 1, kind |-> "primary", method |-> "GET",
                     endpoint |-> "/repos/octo/hello/issues", body |-> Empty,
                     qs |-> ("per_page" :> 20) @@ ("state" :> "open")]>>
    /\ replies = <<ArrayResp(1, 0, MaxResp)>>
    /\ Len(result.output) = MaxResp

----------------------------------------------------------------------------
(* Item k asked for binary delivery and the API answered a listing *)
AnsweredWithFolder(k) ==
    /\ BinaryDelivery(k)
    /\ PrimaryOf(k) # {}
    /\ IsArray(AnswerTo(k))

(* The step in which the folder error is raised leaves every item alone *)
FolderErrorAttachesNothing ==
    (/\ i \in ItemIds
     /\ hist[i].state = "pending"
     /\ hist'[i].error = ErrFolder) => items' = items

(* C16: for file:get with binary delivery, an array response (the path is a
   directory) makes the item fail with 'File Path is a folder, not a file.'
   and no binary attachment is added to any item.                         *)
C16_FolderResponseFailsWithoutAttachment ==
    /\ [](\A k \in ItemIds : AnsweredWithFolder(k) =>
            /\ Failed(k)
            /\ hist[k].error = ErrFolder
            /\ items[k] = input[k]
            /\ ~continueOnFail => (Thrown /\ result.error = ErrFolder))
    /\ [][FolderErrorAttachesNothing]_vars

C16_Witness ==
    /\ fullOperation = "file:get"
    /\ continueOnFail
    /\ Len(items) = 2
    /\ AnsweredWithFolder(1)
    /\ hist[1].error = ErrFolder
    /\ input[1].binary.defined
    /\ items[1] = input[1]
    /\ returnData = <<ErrorEntry(ErrFolder)>>
    /\ i = 2

----------------------------------------------------------------------------
(* Item k was delivered as a binary attachment *)
Delivered(k) == BinaryDelivery(k) /\ Succeeded(k) /\ hist[k].shape = "binary"

AttachmentsOf(item) == IF item.binary.defined THEN item.binary.props ELSE Empty

InputAttachmentsUntouched ==
    \A k \in ItemIds : input'[k].binary = input[k].binary

(* C17 as stated: for file:get with binary delivery and a single-file
   response, the output item keeps the json and every existing attachment
   of the input item and adds the new attachment under the configured
   name, and the attachment mapping of the input item is not mutated.     *)
C17_NewItemKeepsEveryAttachment ==
    /\ [](\A k \in ItemIds : Delivered(k) =>
            /\ result.output[k].json = input[k].json
            /\ \A name \in DOMAIN AttachmentsOf(input[k]) :
                  /\ name \in DOMAIN AttachmentsOf(result.output[k])
                  /\ AttachmentsOf(result.output[k])[name] =
                        AttachmentsOf(input[k])[name]
            /\ AttachmentsOf(result.output[k])[params[k].binaryPropertyName] =
                  prepareBinaryData(AnswerTo(k)))
    /\ [][InputAttachmentsUntouched]_vars

(* C17, amended: the output item keeps the json of the input item and every
   existing attachment under another name than the configured one; under
   the configured name it carries the new attachment, which takes the
   place of an existing attachment of that name; it has no other key.  The
   attachment mapping of the input item is not mutated.                   *)
C17_NewItemKeepsOtherAttachments ==
    /\ [](\A k \in ItemIds : Delivered(k) =>
            /\ Returned
            /\ result.output[k].json = input[k].json
            /\ result.output[k].json = InputJson(k)
            /\ DOMAIN AttachmentsOf(result.output[k]) =
                  DOMAIN AttachmentsOf(input[k])
                  \cup {params[k].binaryPropertyName}
            /\ \A name \in DOMAIN AttachmentsOf(input[k])
                             \ {params[k].binaryPropertyName} :
                  AttachmentsOf(result.output[k])[name] =
                      AttachmentsOf(input[k])[name]
            /\ AttachmentsOf(result.output[k])[params[k].binaryPropertyName] =
                  prepareBinaryData(AnswerTo(k))
            /\ input[k] = InputItem(k, input[k].binary))
    /\ [][InputAttachmentsUntouched]_vars

C17_Witness ==
    /\ fullOperation = "file:get"
    /\ Len(items) = 1
    /\ Delivered(1)
    /\ AttachmentsOf(input[1]) = ("other" :> "b64-other")
    /\ AttachmentsOf(result.output[1]) =
          ("other" :> "b64-other") @@ ("data" :> prepareBinaryData(AnswerTo(1)))

----------------------------------------------------------------------------
(* The DELETE of item k was answered without error *)
SuccessfulDelete(k) ==
    /\ fullOperation = "release:delete"
    /\ Succeeded(k)
    /\ requests[CHOOSE m \in PrimaryOf(k) : TRUE].method = "DELETE"

(* C18: for release:delete every item whose DELETE succeeds contributes
   exactly the entry {success: true} to the output, whatever body the
   response carried.                                                      *)
C18_ReleaseDeleteYieldsSuccessMarker ==
    fullOperation = "release:delete" =>
        /\ \A k \in ItemIds : Succeeded(k) =>
              /\ SuccessfulDelete(k)
              /\ AnswerTo(k) \in {ObjectResp(k, 0), ArrayResp(k, 0, 1)}
              /\ Contribution(k) = <<SuccessEntry>>
        /\ returnData = ConcatUpTo(Contributions, Len(items))
        /\ Returned =>
              /\ Len(result.output) = Len(items)
              /\ \A k \in ItemIds : Succeeded(k) =>
                    result.output[k] = [json |-> SuccessEntry,
                                        binary |-> NoBinary]

C18_Witness ==
    /\ fullOperation = "release:delete"
    /\ Returned
    /\ Len(items) = 2
    /\ replies = <<ObjectResp(1, 0), ArrayResp(2, 0, 1)>>
    /\ result.output = returnJsonArray(<<SuccessEntry, SuccessEntry>>)

----------------------------------------------------------------------------
(* Locals that hold nothing of an earlier item *)
CleanFrame ==
    [requestMethod |-> "GET", endpoint |-> "", body |-> Empty, qs |-> Empty,
     returnAll |-> FALSE, throws |-> Undefined]

PageNumber(m) ==
    Cardinality({y \in PrimaryOf(requests[m].item) : y <= m})

(* The request number m as the parameters and attachments of its own item
   alone determine it, together with the SHA looked up for that item and
   the page reached *)
StatelessRequest(m) ==
    LET k == requests[m].item
        p == params[k]
        owner == OwnerOf(fullOperation, p)
        repository == RepositoryOf(fullOperation, p)
        r == Route(resource, operation, p, input[k], CleanFrame,
                   returnAllParam, params[1].limit)
    IN  IF requests[m].kind = "sha"
        THEN ShaRequest(k, owner, repository, p.filePath,
                        BranchOf(r.frame.body))
        ELSE IF r.next = SHA_LOOKUP
        THEN LET f == RouteAfterSha(operation, p, input[k], r.frame,
                                    replies[m - 1][2], owner, repository)
             IN  PrimaryRequest(k, f, f.qs)
        ELSE PrimaryRequest(k, r.frame,
                            IF r.frame.returnAll = TRUE
                            THEN PageQuery(r.frame.qs, PageNumber(m))
                            ELSE r.frame.qs)

RequestSpecOf(m) ==
    <<requests[m].kind, requests[m].method, requests[m].endpoint,
      requests[m].body, requests[m].qs>>

(* Requests m and n come from items that were given the same inputs *)
SameInputs(m, n) ==
    /\ requests[m].kind = requests[n].kind
    /\ params[requests[m].item] = params[requests[n].item]
    /\ input[requests[m].item].binary = input[requests[n].item].binary
    /\ PageNumber(m) = PageNumber(n)
    /\ (NeedsSha /\ requests[m].kind = "primary") =>
          replies[m - 1] = replies[n - 1]

(* C19: request construction is stateless across items: two items with
   identical parameters cause two separate requests with identical method,
   endpoint, body and query, and nothing set while building the request of
   one item shows up in the request of a later item.                      *)
C19_RequestConstructionIsStateless ==
    /\ \A m \in RequestIds : requests[m] = StatelessRequest(m)
    /\ \A m, n \in RequestIds :
          (requests[m].item # requests[n].item /\ SameInputs(m, n)) =>
              RequestSpecOf(m) = RequestSpecOf(n)
    /\ \A k \in ItemIds :
          (Succeeded(k) /\ ~IsPaginated(resource, operation)) =>
              Cardinality(PrimaryOf(k)) = 1

C19_Witness ==
    /\ fullOperation = "repository:get"
    /\ Len(items) = 2
    /\ params[1] = params[2]
    /\ Succeeded(1)
    /\ Succeeded(2)
    /\ Len(requests) = 2
    /\ requests[1].item = 1
    /\ requests[2].item = 2
    /\ RequestSpecOf(1) = RequestSpecOf(2)
    /\ requests[2].endpoint = "/repos/octo/hello"

----------------------------------------------------------------------------
(* The routing rules as listed, resource by resource: method and endpoint
   template for the identifiers of item parameters p.  The two file paths
   of the model are written out in their escaped form.                    *)
ListedKeys ==
    {"file:create", "file:edit", "file:delete", "file:get", "file:list",
     "issue:create", "issue:createComment", "issue:edit", "issue:get",
     "issue:lock", "release:create", "release:delete", "release:get",
     "release:getAll", "release:update", "repository:get",
     "repository:getLicense", "repository:getIssues",
     "repository:listPopularPaths", "repository:listReferrers",
     "review:get", "review:getAll", "review:create", "review:update",
     "user:getRepositories", "user:invite"}

ListedPath(filePath) ==
    IF filePath = <<"f">> THEN "f" ELSE "d/a%20b"

ListedRoute(key, p) ==
    LET repo == "/repos/" \o p.owner \o "/" \o p.repository
        contents == repo \o "/contents/" \o ListedPath(p.filePath)
        issue == repo \o "/issues/" \o p.issueNumber
        release == repo \o "/releases/" \o p.release_id
        reviews == repo \o "/pulls/" \o p.pullRequestNumber \o "/reviews"
    IN  CASE key = "file:create" -> <<"PUT", contents>>
          [] key = "file:edit" -> <<"PUT", contents>>
          [] key = "file:delete" -> <<"DELETE", contents>>
          [] key = "file:get" -> <<"GET", contents>>
          [] key = "file:list" -> <<"GET", contents>>
          [] key = "issue:create" -> <<"POST", repo \o "/issues">>
          [] key = "issue:createComment" -> <<"POST", issue \o "/comments">>
          [] key = "issue:edit" -> <<"PATCH", issue>>
          [] key = "issue:get" -> <<"GET", issue>>
          [] key = "issue:lock" -> <<"PUT", issue \o "/lock">>
          [] key = "release:create" -> <<"POST", repo \o "/releases">>
          [] key = "release:delete" -> <<"DELETE", release>>
          [] key = "release:get" -> <<"GET", release>>
          [] key = "release:getAll" -> <<"GET", repo \o "/releases">>
          [] key = "release:update" -> <<"PATCH", release>>
          [] key = "repository:get" -> <<"GET", repo>>
          [] key = "repository:getLicense" -> <<"GET", repo \o "/license">>
          [] key = "repository:getIssues" -> <<"GET", repo \o "/issues">>
          [] key = "repository:listPopularPaths" ->
                <<"GET", repo \o "/traffic/popular/paths">>
          [] key = "repository:listReferrers" ->
                <<"GET", repo \o "/traffic/popular/referrers">>
          [] key = "review:get" -> <<"GET", reviews \o "/" \o p.reviewId>>
          [] key = "review:getAll" -> <<"GET", reviews>>
          [] key = "review:create" -> <<"POST", reviews>>
          [] key = "review:update" -> <<"PUT", reviews \o "/" \o p.reviewId>>
          [] key = "user:getRepositories" ->
                <<"GET", "/users/" \o p.owner \o "/repos">>
          [] key = "user:invite" ->
                <<"POST", "/orgs/" \o p.organization \o "/invitations">>

(* C20: for every (resource, operation) pair of the routing rules, the
   request built for an item has the listed method and the listed endpoint
   template filled in with the owner, repository and identifiers of that
   item.                                                                  *)
C20_ListedMethodAndEndpoint ==
    fullOperation \in ListedKeys =>
        /\ \A m \in RequestIds : requests[m].kind = "primary" =>
              <<requests[m].method, requests[m].endpoint>> =
                  ListedRoute(fullOperation, params[requests[m].item])
        /\ \A k \in ItemIds : Succeeded(k) => PrimaryOf(k) # {}

C20_Witness ==
    /\ fullOperation = "review:update"
    /\ Len(items) = 2
    /\ params[1].owner = "octo"
    /\ params[2].owner = "acme"
    /\ Len(requests) = 2
    /\ requests[1].method = "PUT"
    /\ requests[1].endpoint = "/repos/octo/hello/pulls/3/reviews/5"
    /\ requests[2].method = "PUT"
    /\ requests[2].endpoint = "/repos/acme/world/pulls/4/reviews/6"

----------------------------------------------------------------------------
(* A path segment with its reserved characters percent-encoded, on the
   identifiers of the model *)
EscapedSegment(value) ==
    CASE value = "oc/to" -> "oc%2Fto"
      [] value = "he llo" -> "he%20llo"
      [] value = "7?x" -> "7%3Fx"
      [] value = "9#a" -> "9%23a"
      [] value = "3/4" -> "3%2F4"
      [] value = "5?" -> "5%3F"
      [] value = "o rg" -> "o%20rg"
      [] OTHER -> value

EscapedIdentifiers(p) ==
    [p EXCEPT !.owner = EscapedSegment(p.owner),
              !.repository = EscapedSegment(p.repository),
              !.issueNumber = EscapedSegment(p.issueNumber),
              !.release_id = EscapedSegment(p.release_id),
              !.pullRequestNumber = EscapedSegment(p.pullRequestNumber),
              !.reviewId = EscapedSegment(p.reviewId),
              !.organization = EscapedSegment(p.organization)]

(* C21: every path segment put into an endpoint from a supplied value
   (owner, repository, issue number, release id, pull request number,
   review id, organization, file path) has gone through escaping, so a
   value with a reserved path character never reaches the endpoint
   unescaped.                                                             *)
C21_EverySegmentEscaped ==
    fullOperation \in ListedKeys =>
        \A m \in RequestIds : requests[m].kind = "primary" =>
            requests[m].endpoint =
                ListedRoute(fullOperation,
                            EscapedIdentifiers(params[requests[m].item]))[2]

----------------------------------------------------------------------------
(* The event names as the API lists them *)
ListedEvent(event) ==
    CASE event = "approve" -> "APPROVE"
      [] event = "requestChanges" -> "REQUEST_CHANGES"
      [] event = "comment" -> "COMMENT"
      [] event = "pending" -> "PENDING"

(* C22: for review:create the event of the request body is the
   upper-snake-case form of the selected event, and the body text is in
   the request exactly when that event is REQUEST_CHANGES or COMMENT,
   never for APPROVE or PENDING.                                          *)
C22_ReviewEventAndBody ==
    fullOperation = "review:create" =>
        \A m \in RequestIds :
            LET p == params[requests[m].item]
                b == requests[m].body
            IN  /\ "event" \in DOMAIN b
                /\ b.event = ListedEvent(p.event)
                /\ "body" \in DOMAIN b <=>
                      p.event \in {"requestChanges", "comment"}
                /\ "body" \in DOMAIN b => b.body = p.bodyText

C22_Witness ==
    /\ fullOperation = "review:create"
    /\ Len(requests) = 2
    /\ params[1].event = "requestChanges"
    /\ requests[1].body.event = "REQUEST_CHANGES"
    /\ requests[1].body.body = "text"
    /\ params[2].event = "pending"
    /\ requests[2].body.event = "PENDING"
    /\ "body" \notin DOMAIN requests[2].body

----------------------------------------------------------------------------
(* sent is the list of the strings that supplied holds under field, same
   length, same order *)
IsFlattened(sent, supplied, field) ==
    /\ Len(sent) = Len(supplied)
    /\ \A j \in 1..Len(supplied) : sent[j] = supplied[j][field]

(* C23: for issue:create and issue:edit a supplied list of {label} objects
   is sent as the list of the label strings, same order, same length, and
   a supplied list of {assignee} objects likewise; for issue:edit a field
   that was not supplied is absent from the body, not sent as an empty
   list.                                                                  *)
C23_LabelsAndAssigneesFlattened ==
    /\ fullOperation = "issue:create" =>
          \A m \in RequestIds :
              LET p == params[requests[m].item]
                  b == requests[m].body
              IN  /\ {"labels", "assignees"} \subseteq DOMAIN b
                  /\ IsFlattened(b.labels, p.labels, "label")
                  /\ IsFlattened(b.assignees, p.assignees, "assignee")
    /\ fullOperation = "issue:edit" =>
          \A m \in RequestIds :
              LET p == params[requests[m].item]
                  b == requests[m].body
              IN  /\ DOMAIN b = DOMAIN p.editFields
                  /\ "labels" \in DOMAIN b =>
                        IsFlattened(b.labels, p.editFields.labels, "label")
                  /\ "assignees" \in DOMAIN b =>
                        IsFlattened(b.assignees, p.editFields.assignees,
                                    "assignee")
                  /\ "title" \in DOMAIN b => b.title = p.editFields.title

C23_Witness ==
    /\ fullOperation = "issue:edit"
    /\ Len(requests) = 2
    /\ params[1].editFields =
          ("labels" :> <<[label |-> "ui"], [label |-> "bug"]>>)
          @@ ("assignees" :> <<>>)
    /\ requests[1].body = ("labels" :> <<"ui", "bug">>) @@ ("assignees" :> <<>>)
    /\ params[2].editFields = ("title" :> "t2")
    /\ requests[2].body = ("title" :> "t2")

----------------------------------------------------------------------------
ReturnAllFetch == IsPaginated(resource, operation) /\ returnAllParam

(* Request m was answered with a page that announces no further page *)
LastPage(m) ==
    /\ replies[m] # Pending
    /\ replies[m] # Failure
    /\ ~HasNextPage(replies[m])

PageCursorInStep ==
    ReturnAllFetch =>
        /\ \A m \in RequestIds :
              /\ "page" \in DOMAIN requests[m].qs
              /\ requests[m].qs.page = PageNumber(m)
              /\ requests[m].qs.page <= MaxPages
        /\ \A m, n \in RequestIds :
              (LastPage(m) /\ n > m) => requests[n].item # requests[m].item

(* C24: a return-all fetch uses a page cursor that starts at the first
   page and advances by exactly one per request; no request is issued
   after a page that signals no further page; and the fetch terminates,
   the API returning such a page at the latest as page MaxPages.          *)
C24_PageCursorAdvancesAndFetchEnds ==
    /\ []PageCursorInStep
    /\ (ReturnAllFetch /\ pc = "pages") ~> (pc # "pages")

C24_Witness ==
    /\ ReturnAllFetch
    /\ Len(items) = 1
    /\ Len(requests) = 3
    /\ requests[1].qs.page = 1
    /\ requests[2].qs.page = 2
    /\ requests[3].qs.page = 3
    /\ HasNextPage(replies[2])
    /\ LastPage(3)
    /\ pc = "done"

----------------------------------------------------------------------------
(* The operation values a release run can carry: the five tags and one
   that is none of them *)
ReleaseTags == {"create", "delete", "get", "getAll", "update"}

TestsPassed(op) == {tag \in ReleaseTags : op = tag}

(* The release branch written as one exclusive chain over the same tags *)
ReleaseElseIf(f, op, p, ra, lim, owner, repository) ==
    LET rel == "/repos/" \o owner \o "/" \o repository \o "/releases"
    IN  IF op = "create"
        THEN [f EXCEPT !.requestMethod = "POST",
                       !.body = ("tag_name" :> p.releaseTag)
                                @@ p.additionalFields,
                       !.endpoint = rel]
        ELSE IF op = "delete"
        THEN [f EXCEPT !.requestMethod = "DELETE",
                       !.endpoint = rel \o "/" \o p.release_id]
        ELSE IF op = "get"
        THEN [f EXCEPT !.requestMethod = "GET",
                       !.endpoint = rel \o "/" \o p.release_id]
        ELSE IF op = "getAll"
        THEN [f EXCEPT !.requestMethod = "GET", !.endpoint = rel,
                       !.returnAll = ra,
                       !.qs = IF ra THEN f.qs
                              ELSE ("per_page" :> lim) @@ f.qs]
        ELSE IF op = "update"
        THEN [f EXCEPT !.requestMethod = "PATCH", !.body = p.additionalFields,
                       !.endpoint = rel \o "/" \o p.release_id]
        ELSE f

(* C25: for the release resource the ladder of independent sequential if
   tests selects at most one branch for any operation value, so for every
   operation value it builds the same method, endpoint, body and query as
   an exclusive else-if chain over the same tags would.                   *)
C25_ReleaseLadderIsExclusive ==
    resource = "release" =>
        /\ \A op \in ReleaseTags \cup {UnknownOperation} :
              /\ Cardinality(TestsPassed(op)) <= 1
              /\ \A k \in ItemIds, ra \in BOOLEAN :
                    RouteRelease(CleanFrame, op, params[k], ra,
                                 params[1].limit, params[k].owner,
                                 params[k].repository)
                    = ReleaseElseIf(CleanFrame, op, params[k], ra,
                                    params[1].limit, params[k].owner,
                                    params[k].repository)
        /\ \A m \in RequestIds :
              LET k == requests[m].item
                  f == ReleaseElseIf(CleanFrame, operation, params[k],
                                     returnAllParam, params[1].limit,
                                     params[k].owner, params[k].repository)
              IN  /\ requests[m].method = f.requestMethod
                  /\ requests[m].endpoint = f.endpoint
                  /\ requests[m].body = f.body
                  /\ requests[m].qs = IF f.returnAll
                                      THEN PageQuery(f.qs, PageNumber(m))
                                      ELSE f.qs

C25_Witness ==
    /\ fullOperation = "release:create"
    /\ Len(items) = 2
    /\ Len(requests) = 2
    /\ requests[2].method = "POST"
    /\ requests[2].endpoint = "/repos/acme/world/releases"
    /\ requests[2].body = ("tag_name" :> "v1") @@ ("name" :> "n")
    /\ requests[2].qs = Empty

----------------------------------------------------------------------------
(* The operation of the run is one the selectors offer, or its key is in
   one of the allow-lists *)
OfferedOrListed ==
    \/ resource \in Resources /\ operation \in OfferedOperations(resource)
    \/ InAllowLists(fullOperation)

(* C26: every operation the selectors offer for a resource, and every key
   of the two allow-lists, has a route of its own: the request issued for
   it has an endpoint set by a branch for that operation, so no offered
   operation is sent with the reset defaults, GET and the empty endpoint. *)
C26_EveryOfferedOperationHasARoute ==
    OfferedOrListed =>
        \A m \in RequestIds :
            requests[m].kind = "primary" => requests[m].endpoint # ""

----------------------------------------------------------------------------
(* Item k asks for a binary upload and has no binary data, or not under the
   configured name *)
MissingBinary(k) ==
    /\ fullOperation \in {"file:create", "file:edit"}
    /\ params[k].binaryData = TRUE
    /\ \/ ~input[k].binary.defined
       \/ params[k].binaryPropertyName \notin DOMAIN input[k].binary.props

(* C27: for file:create and file:edit with binary upload selected, an item
   that has no binary data, or lacks the named binary property, fails with
   the missing-binary error without any request, neither the SHA lookup
   nor the PUT, having been issued for that item.                         *)
C27_MissingBinaryFailsBeforeAnyRequest ==
    \A k \in ItemIds : MissingBinary(k) =>
        /\ \A m \in RequestIds : requests[m].item # k
        /\ ~Succeeded(k)
        /\ Failed(k) => hist[k].error \in {ErrNoBinary, ErrNoBinaryProperty}

====
